---------------------------- MODULE Spec2Model ----------------------------
(***************************************************************************)
(* Realtime session relay of kt-pro-api: one browser connection relayed to *)
(* the Gemini live endpoint, the transcript aggregator, the frame change   *)
(* detector, the session lifecycle written to the sessions collection, and *)
(* the document generation trigger.                                        *)
(*                                                                         *)
(* The relay is handleSessionWebSocket of the gemini service (its current  *)
(* text is the third file held in src/src/services/s3.service.ts, lines    *)
(* 101-581); the REST endpoints are those of session.controller.ts.        *)
(*                                                                         *)
(* Text is a sequence of characters, " " being white space.  A Date is     *)
(* <<>> (null) or <<t>>.  A store update that the code does not await, or  *)
(* awaits before going on, is a write in flight: it is applied by DbApply  *)
(* at some later step, in any order with the other writes in flight, and   *)
(* what the code does after the await runs when it is applied.             *)
(***************************************************************************)
EXTENDS Integers, Sequences, FiniteSets, Bags, TLC

\* ------------------------------------------------------------- bounds
MaxTime == 42
MaxConnections == 2
MaxInflight == 2
MaxFrags == 1
MaxAggFrags == 2
MaxScenarioFrags == 3
MaxFrameMsgs == 2
MaxClientMsgs == 1
MaxGen == 1

\* --------------------------------------------------- program constants
MAX_RECONNECTS == 5

\* the backoff of one attempt, reconnectAttempts * 2000 ms; the clock counts
\* seconds
BACKOFF_MS == 2000

\* the same delay before every attempt
BackoffSecondsFixed(attempts) == BACKOFF_MS \div 1000

BackoffSeconds(attempts) == (attempts * BACKOFF_MS) \div 1000

Null == "null"
NoDate == <<>>

\* ------------------------------------------------------------ strings
IsSpace(c) == c = " "

RECURSIVE TrimStart(_)
TrimStart(s) ==
  IF s = <<>> THEN <<>>
  ELSE IF IsSpace(Head(s)) THEN TrimStart(Tail(s)) ELSE s

RECURSIVE TrimEnd(_)
TrimEnd(s) ==
  IF s = <<>> THEN <<>>
  ELSE IF IsSpace(s[Len(s)]) THEN TrimEnd(SubSeq(s, 1, Len(s) - 1)) ELSE s

\* String.prototype.trim
Trim(s) == TrimEnd(TrimStart(s))

\* --------------------------------------------------------- fingerprint
\* 31 * h + c modulo 2^32, h held as two 16-bit halves: what
\* hash = (hash << 5) - hash + str.charCodeAt(i); hash = hash & hash
\* leaves in hash, before the sign is read.
Mul31Add(h, c) ==
  LET lo2 == h.lo * 31 + c
      hi2 == h.hi * 31 + (lo2 \div 65536)
  IN  [hi |-> hi2 % 65536, lo |-> lo2 % 65536]

\* the 32-bit two's complement value (hash & hash)
ToInt32(h) ==
  IF h.hi >= 32768 THEN (h.hi - 65536) * 65536 + h.lo ELSE h.hi * 65536 + h.lo

RECURSIVE HashLoop(_, _, _, _)
HashLoop(str, i, step, h) ==
  IF i >= Len(str) THEN h
  ELSE HashLoop(str, i + step, step, Mul31Add(h, str[i + 1]))

HashStep(len) == IF len \div 50 >= 1 THEN len \div 50 ELSE 1

\* simpleHash: about 50 sampled characters and the length; str is the
\* sequence of the payload's character codes
simpleHash(str) ==
  ToInt32(HashLoop(str, 0, HashStep(Len(str)), [hi |-> 0, lo |-> Len(str)]))

\* ------------------------------------------------------------ the store
NoSession ==
  [present |-> FALSE, status |-> "pending", startedAt |-> NoDate, endedAt |-> NoDate,
   resumptionHandle |-> Null, transcript |-> <<>>, frames |-> <<>>,
   document |-> Null, documentHtml |-> Null]

\* Session.create of createSession, with the schema's defaults
NewSession == [NoSession EXCEPT !.present = TRUE]

\* updateOne({ inviteToken }, { $set: upd }): no document matches a missing session
SetFields(d, upd) ==
  IF ~d.present THEN d
  ELSE [f \in DOMAIN d |-> IF f \in DOMAIN upd THEN upd[f] ELSE d[f]]

\* a write in flight: op is "set" (arg the fields), "pushTranscript" (arg the
\* chunk) or "pushFrame" (arg the frame); then names what the code does once
\* the awaited write has returned ("none" when it is not awaited); msg is the
\* client message whose handler waits
Write(op, arg, then, msg) == [op |-> op, arg |-> arg, then |-> then, msg |-> msg]

ApplyWrite(d, w) ==
  IF ~d.present THEN d
  ELSE IF w.op = "set" THEN SetFields(d, w.arg)
  ELSE IF w.op = "pushTranscript" THEN [d EXCEPT !.transcript = Append(@, w.arg)]
  ELSE [d EXCEPT !.frames = Append(@, w.arg)]

RemoveAt(s, i) == SubSeq(s, 1, i - 1) \o SubSeq(s, i + 1, Len(s))

\* the bag of writes in flight with one more, and with one applied
AddWrite(q, w) == q (+) SetToBag({w})
DropWrite(q, w) == q (-) SetToBag({w})

\* -------------------------------------------------------------- state
VARIABLES
  now,                          \* the clock new Date() and Date.now() read
  db,                           \* the session document of the invite token
  inflight,                     \* the relay's store updates sent and not yet applied
  conn,                         \* client connections accepted so far
  browserWs,                    \* "NONE", "OPEN" or "CLOSED": the client socket
  clientOut,                    \* frames given to browserWs.send: transcript, session_ended, error
  clientMsgs,                   \* client messages received on this connection
  geminiWs,                     \* "null", or the upstream socket's readyState
  connPc,                       \* "idle", "timer" (setTimeout pending), "token" (awaiting getAccessToken)
  timerDue,                     \* the time from which the pending setTimeout callback may run (0: none)
  connToken,                    \* the token argument of the last connectToGemini call
  setupHandle,                  \* "none", or the session_resumption handle of the last setup message
  forwarded,                    \* the client messages sent upstream, in order
  resumptionToken,
  reconnectAttempts,
  lastFrameHash,                \* <<>> (null) or <<hash>>
  sessionTerminated,
  explicitSessionEndRequested,
  transcriptBuffer,
  uploads,                      \* uploadFrame calls in flight
  genPending,                   \* generateDocument calls that have not read the session yet
  genRunning,                   \* generateDocument calls waiting for the completion
  hist,                         \* history: the fragments and flush triggers this relay has handled
  reconnectsStarted,            \* history: reconnect attempts started by this relay, in all (counted
                                \* to MAX_RECONNECTS + 1) and since its upstream socket last opened,
                                \* and the time of the close that scheduled the last one
  synthesisCalls,               \* history: generateDocument calls made by this relay's close handler
  frameHist,                    \* history: the image payloads this relay has considered, in order
  handledOpen,                  \* history: the client messages handled while the upstream socket was open
  uploadsFailed                 \* history: uploadFrame calls of this relay that have thrown

storeV == <<db, inflight>>
clientV == <<browserWs, clientOut, clientMsgs>>
upV == <<geminiWs, connPc, timerDue, connToken, setupHandle, forwarded>>
memV == <<resumptionToken, reconnectAttempts, lastFrameHash, sessionTerminated,
          explicitSessionEndRequested, transcriptBuffer>>
taskV == <<uploads, genPending, genRunning>>
histV == <<conn, hist, reconnectsStarted, synthesisCalls, frameHist, handledOpen, uploadsFailed>>
vars == <<now, storeV, clientV, upV, memV, taskV, histV>>

\* ------------------------------------------------ transcript aggregator
NoBuffer == [speaker |-> "none", text |-> <<>>]

\* a flush that sends the utterance whatever its text
flushTranscriptBufferNoEmptyTest(e, t) ==
  IF e.buf = NoBuffer THEN e
  ELSE LET chunk == [speaker |-> e.buf.speaker, text |-> Trim(e.buf.text), timestamp |-> t]
       IN  [buf |-> NoBuffer,
            inflight |-> e.inflight (+) SetToBag({[op |-> "pushTranscript", arg |-> chunk,
                                                   then |-> "none", msg |-> 0]}),
            out |-> Append(e.out, [type |-> "transcript", speaker |-> chunk.speaker,
                                   text |-> chunk.text])]

\* What the aggregator touches: e.buf is transcriptBuffer, e.inflight the
\* writes in flight, e.out the frames given to browserWs.send.
flushTranscriptBuffer(e, t) ==
  IF e.buf = NoBuffer THEN e
  ELSE LET chunk == [speaker |-> e.buf.speaker, text |-> Trim(e.buf.text), timestamp |-> t]
       IN  IF chunk.text = <<>> THEN [e EXCEPT !.buf = NoBuffer]
           ELSE [buf |-> NoBuffer,
                 inflight |-> AddWrite(e.inflight, Write("pushTranscript", chunk, "none", 0)),
                 out |-> Append(e.out, [type |-> "transcript", speaker |-> chunk.speaker,
                                        text |-> chunk.text])]

\* a fragment of the same speaker that takes the place of the pending text
bufferTranscriptOverwrite(e, speaker, text, t) ==
  IF e.buf # NoBuffer /\ e.buf.speaker = speaker
  THEN [e EXCEPT !.buf = [speaker |-> speaker, text |-> text]]
  ELSE [flushTranscriptBuffer(e, t) EXCEPT !.buf = [speaker |-> speaker, text |-> text]]

bufferTranscript(e, speaker, text, t) ==
  IF e.buf # NoBuffer /\ e.buf.speaker = speaker
  THEN [e EXCEPT !.buf = [speaker |-> speaker, text |-> e.buf.text \o text]]
  ELSE [flushTranscriptBuffer(e, t) EXCEPT !.buf = [speaker |-> speaker, text |-> text]]

\* geminiWs.onmessage up to the resumption update, on the aggregator's state.
\* An absent or empty text is <<>>.  The audio parts and the ai_speaking
\* frames only go to the client and are not recorded.
OnMessageTranscript(e, m, t) ==
  LET e1 == IF m.turnComplete THEN flushTranscriptBuffer(e, t) ELSE e
      e2 == IF m.inputText # <<>> THEN bufferTranscript(e1, "employee", m.inputText, t) ELSE e1
  IN  IF m.outputText # <<>> THEN bufferTranscript(e2, "ai", m.outputText, t) ELSE e2

\* history kept for the claims: a fragment, or a flush trigger (consecutive
\* triggers are kept as one)
Frag(speaker, text) == [k |-> "frag", speaker |-> speaker, text |-> text]
FlushMark == [k |-> "flush", speaker |-> "none", text |-> <<>>]
Mark(h) == IF h # <<>> /\ h[Len(h)] = FlushMark THEN h ELSE Append(h, FlushMark)
HistOfMessage(h, m) ==
  LET h1 == IF m.turnComplete THEN Mark(h) ELSE h
      h2 == IF m.inputText # <<>> THEN Append(h1, Frag("employee", m.inputText)) ELSE h1
  IN  IF m.outputText # <<>> THEN Append(h2, Frag("ai", m.outputText)) ELSE h2
FragCount(h) == Cardinality({i \in 1..Len(h) : h[i].k = "frag"})

\* -------------------------------------------------------- the relay
Init ==
  /\ now = 0
  /\ db \in {NoSession, NewSession}
  /\ inflight = EmptyBag
  /\ conn = 0
  /\ browserWs = "NONE"
  /\ clientOut = <<>>
  /\ clientMsgs = 0
  /\ geminiWs = "null"
  /\ connPc = "idle"
  /\ timerDue = 0
  /\ connToken = Null
  /\ setupHandle = "none"
  /\ forwarded = <<>>
  /\ resumptionToken = Null
  /\ reconnectAttempts = 0
  /\ lastFrameHash = <<>>
  /\ sessionTerminated = FALSE
  /\ explicitSessionEndRequested = FALSE
  /\ transcriptBuffer = NoBuffer
  /\ uploads = <<>>
  /\ genPending = 0
  /\ genRunning = 0
  /\ hist = <<>>
  /\ reconnectsStarted = [total |-> 0, sinceOpen |-> 0, closedAt |-> 0]
  /\ synthesisCalls = 0
  /\ frameHist = <<>>
  /\ handledOpen = {}
  /\ uploadsFailed = 0

Tick ==
  /\ now' = now + 1
  /\ UNCHANGED <<storeV, clientV, upV, memV, taskV, histV>>

\* One relay at a time: a new client connection is accepted once the
\* previous relay has nothing left to run.
Quiescent ==
  /\ browserWs # "OPEN"
  /\ inflight = EmptyBag
  /\ uploads = <<>>
  /\ connPc = "idle"
  /\ geminiWs \in {"null", "CLOSED"}

\* a connect that stamps startedAt every time
ActivateFieldsRestart(session, t) ==
  [status |-> "active", startedAt |-> <<t>>, endedAt |-> NoDate]

\* the $set of the connect: startedAt kept when set, endedAt cleared
ActivateFields(session, t) ==
  [status |-> "active",
   startedAt |-> IF session.startedAt # NoDate THEN session.startedAt ELSE <<t>>,
   endedAt |-> NoDate]

\* the error frame sent, and the handler going on without its return
SessionNotFoundNoReturn ==
  [clientOut |-> <<[type |-> "error", message |-> "Session not found"]>>,
   browserWs |-> "CLOSED", connPc |-> "token"]

\* no session for the token: the error frame, browserWs.close(), return
SessionNotFound ==
  [clientOut |-> <<[type |-> "error", message |-> "Session not found"]>>,
   browserWs |-> "CLOSED", connPc |-> "idle"]

\* handleSessionWebSocket up to its first call of connectToGemini: findOne,
\* the error frame or the update to active, the relay's variables, the
\* handlers, connectToGemini(session.resumptionHandle || null)
handleSessionWebSocket ==
  /\ Quiescent
  /\ conn' = conn + 1
  /\ resumptionToken' = Null
  /\ reconnectAttempts' = 0
  /\ lastFrameHash' = <<>>
  /\ sessionTerminated' = FALSE
  /\ explicitSessionEndRequested' = FALSE
  /\ transcriptBuffer' = NoBuffer
  /\ geminiWs' = "null"
  /\ timerDue' = 0
  /\ setupHandle' = "none"
  /\ forwarded' = <<>>
  /\ clientMsgs' = 0
  /\ hist' = <<>>
  /\ reconnectsStarted' = [total |-> 0, sinceOpen |-> 0, closedAt |-> 0]
  /\ synthesisCalls' = 0
  /\ frameHist' = <<>>
  /\ handledOpen' = {}
  /\ uploadsFailed' = 0
  /\ IF ~db.present
     THEN /\ clientOut' = SessionNotFound.clientOut
          /\ browserWs' = SessionNotFound.browserWs
          /\ db' = db
          /\ connPc' = SessionNotFound.connPc
          /\ connToken' = Null
     ELSE /\ clientOut' = <<>>
          /\ browserWs' = "OPEN"
          /\ db' = SetFields(db, ActivateFields(db, now))
          /\ connPc' = "token"
          /\ connToken' = db.resumptionHandle
  /\ UNCHANGED <<now, inflight, taskV>>

\* connectToGemini after await getAccessToken(): geminiWs = new WebSocket(...)
connectToGemini ==
  /\ connPc = "token"
  /\ connPc' = "idle"
  /\ geminiWs' = "CONNECTING"
  /\ UNCHANGED <<now, storeV, clientV, timerDue, connToken, setupHandle, forwarded, memV, taskV, histV>>

\* geminiWs.onopen: the counter is reset and the setup message carries the
\* call's token when there is one (session_ready is not recorded)
GeminiOpen ==
  /\ geminiWs = "CONNECTING"
  /\ geminiWs' = "OPEN"
  /\ reconnectAttempts' = 0
  /\ setupHandle' = connToken
  /\ reconnectsStarted' = [reconnectsStarted EXCEPT !.sinceOpen = 0]
  /\ UNCHANGED <<now, storeV, clientV, connPc, timerDue, connToken, forwarded, resumptionToken,
                 lastFrameHash, sessionTerminated, explicitSessionEndRequested,
                 transcriptBuffer, taskV, conn, hist, synthesisCalls, frameHist, handledOpen,
                 uploadsFailed>>

\* the resumption update of onmessage: the handle kept in memory and the
\* update not awaited
OnMessageHandle(q, m) ==
  IF m.newHandle # Null
  THEN AddWrite(q, Write("set", [resumptionHandle |-> m.newHandle], "none", 0))
  ELSE q

\* geminiWs.onmessage.  A socket whose close() has been called still
\* delivers what the peer sent before its close frame.
GeminiMessage(m) ==
  /\ geminiWs \in {"OPEN", "CLOSING"}
  /\ LET e == OnMessageTranscript([buf |-> transcriptBuffer, inflight |-> inflight,
                                   out |-> clientOut], m, now)
     IN  /\ transcriptBuffer' = e.buf
         /\ clientOut' = e.out
         /\ inflight' = OnMessageHandle(e.inflight, m)
  /\ resumptionToken' = IF m.newHandle # Null THEN m.newHandle ELSE resumptionToken
  /\ hist' = HistOfMessage(hist, m)
  /\ UNCHANGED <<now, db, browserWs, clientMsgs, upV, reconnectAttempts, lastFrameHash,
                 sessionTerminated, explicitSessionEndRequested, taskV, conn,
                 reconnectsStarted, synthesisCalls, frameHist, handledOpen, uploadsFailed>>

\* at the ceiling the relay gives up without telling the client
OnCloseDecisionSilent(terminated, attempts) ==
  IF terminated THEN "stop"
  ELSE IF attempts < MAX_RECONNECTS THEN "retry"
  ELSE "stop"

\* the ceiling tested one attempt late
OnCloseDecisionLate(terminated, attempts) ==
  IF terminated THEN "stop"
  ELSE IF attempts <= MAX_RECONNECTS THEN "retry"
  ELSE "max_reconnects"

\* the decision of geminiWs.onclose
OnCloseDecision(terminated, attempts) ==
  IF terminated THEN "stop"
  ELSE IF attempts < MAX_RECONNECTS THEN "retry"
  ELSE "max_reconnects"

\* a reconnect decided when the socket reports an error, before it has closed
GeminiCloseOnError ==
  /\ geminiWs \in {"CONNECTING", "OPEN", "CLOSING", "ABORTING"}
  /\ geminiWs' = geminiWs
  /\ LET d == OnCloseDecision(sessionTerminated, reconnectAttempts)
     IN  /\ reconnectAttempts' = IF d = "retry" THEN reconnectAttempts + 1 ELSE reconnectAttempts
         /\ connPc' = IF d = "retry" THEN "timer" ELSE connPc
         /\ timerDue' = IF d = "retry" THEN now + BackoffSeconds(reconnectAttempts + 1) ELSE timerDue
         /\ reconnectsStarted' = IF d = "retry" THEN [reconnectsStarted EXCEPT !.closedAt = now] ELSE reconnectsStarted
         /\ clientOut' = IF d = "max_reconnects" THEN Append(clientOut, [type |-> "session_ended", reason |-> "max_reconnects"]) ELSE clientOut
  /\ UNCHANGED <<now, storeV, browserWs, clientMsgs, connToken, setupHandle, forwarded,
                 resumptionToken, lastFrameHash, sessionTerminated,
                 explicitSessionEndRequested, transcriptBuffer, taskV, conn, hist,
                 synthesisCalls, frameHist, handledOpen, uploadsFailed>>

\* geminiWs.onclose: the upstream socket has closed (a failed connection
\* attempt closes it too)
GeminiClose ==
  /\ geminiWs \in {"CONNECTING", "OPEN", "CLOSING", "ABORTING"}
  /\ geminiWs' = "CLOSED"
  /\ LET d == OnCloseDecision(sessionTerminated, reconnectAttempts)
     IN  /\ reconnectAttempts' = IF d = "retry" THEN reconnectAttempts + 1 ELSE reconnectAttempts
         /\ connPc' = IF d = "retry" THEN "timer" ELSE connPc
         /\ timerDue' = IF d = "retry" THEN now + BackoffSeconds(reconnectAttempts + 1)
                        ELSE timerDue
         /\ reconnectsStarted' = IF d = "retry"
                                 THEN [reconnectsStarted EXCEPT !.closedAt = now]
                                 ELSE reconnectsStarted
         /\ clientOut' = IF d = "max_reconnects"
                         THEN Append(clientOut, [type |-> "session_ended", reason |-> "max_reconnects"])
                         ELSE clientOut
  /\ UNCHANGED <<now, storeV, browserWs, clientMsgs, connToken, setupHandle, forwarded,
                 resumptionToken, lastFrameHash, sessionTerminated,
                 explicitSessionEndRequested, transcriptBuffer, taskV, conn, hist,
                 synthesisCalls, frameHist, handledOpen, uploadsFailed>>

\* the setTimeout callback of onclose: connectToGemini(resumptionToken)
ReconnectTimer ==
  /\ connPc = "timer"
  /\ now >= timerDue
  /\ connPc' = "token"
  /\ timerDue' = 0
  /\ connToken' = resumptionToken
  /\ reconnectsStarted' =
       [total |-> IF reconnectsStarted.total <= MAX_RECONNECTS
                  THEN reconnectsStarted.total + 1 ELSE reconnectsStarted.total,
        sinceOpen |-> IF reconnectsStarted.sinceOpen <= MAX_RECONNECTS
                      THEN reconnectsStarted.sinceOpen + 1 ELSE reconnectsStarted.sinceOpen,
        closedAt |-> 0]
  /\ UNCHANGED <<now, storeV, clientV, geminiWs, setupHandle, forwarded, memV, taskV,
                 conn, hist, synthesisCalls, frameHist, handledOpen, uploadsFailed>>

\* geminiWs.send(JSON.stringify(data)) under its readyState test
ForwardIfOpen(ws, fw, id) == IF ws = "OPEN" THEN Append(fw, id) ELSE fw

\* the $set of the end_session handler
EndedFields(t) == [status |-> "ended", endedAt |-> <<t>>]

\* the $set of the close handler after an explicit end
ExplicitCloseFields(t) == [status |-> "ended", endedAt |-> <<t>>]

\* the close handler's $set of the earlier relay, which kept the handle
ProcessingFieldsKeepHandle(t) == [status |-> "processing", endedAt |-> <<t>>]

\* the $set of the close handler otherwise
ProcessingFields(t) == [status |-> "processing", endedAt |-> <<t>>, resumptionHandle |-> Null]

\* no test: every frame is taken as changed
FrameChangedAlways(last, payload) == TRUE

\* the test of saveFrameIfChanged
FrameChanged(last, payload) == last # <<simpleHash(payload)>>

\* a handler without its try: the exception of JSON.parse leaves the
\* listener and takes the connection down
SocketAfterMessageNoCatch(kind, ws) == IF kind = "malformed" THEN "CLOSED" ELSE ws

\* the client socket after the message handler: no branch closes it, and the
\* catch keeps the exception of JSON.parse inside the handler
SocketAfterMessage(kind, ws) == ws

\* browserWs.on('message'): m.kind is "malformed" (JSON.parse throws and the
\* catch logs), "end_session", "media" (one image/jpeg chunk, m.data its
\* character codes) or "other".  A message's number is its place in the
\* connection.
BrowserMessage(m) ==
  /\ browserWs = "OPEN"
  /\ clientMsgs' = clientMsgs + 1
  /\ LET id == clientMsgs + 1
         e == flushTranscriptBuffer([buf |-> transcriptBuffer, inflight |-> inflight,
                                     out |-> clientOut], now)
     IN  IF m.kind = "malformed"
         THEN UNCHANGED <<storeV, clientOut, upV, memV, uploads, hist, frameHist>>
         ELSE IF m.kind = "end_session"
         THEN /\ explicitSessionEndRequested' = TRUE
              /\ sessionTerminated' = TRUE
              /\ transcriptBuffer' = e.buf
              /\ clientOut' = e.out
              /\ geminiWs' = IF geminiWs = "OPEN" THEN "CLOSING" ELSE geminiWs
              /\ inflight' = AddWrite(e.inflight, Write("set", EndedFields(now), "endAck", id))
              /\ hist' = Mark(hist)
              /\ UNCHANGED <<db, connPc, timerDue, connToken, setupHandle, forwarded, resumptionToken,
                             reconnectAttempts, lastFrameHash, uploads, frameHist>>
         ELSE IF m.kind = "media" /\ FrameChanged(lastFrameHash, m.data)
         THEN /\ lastFrameHash' = <<simpleHash(m.data)>>
              /\ uploads' = Append(uploads, [timestamp |-> now, msg |-> id])
              /\ frameHist' = Append(frameHist, m.data)
              /\ UNCHANGED <<storeV, clientOut, upV, resumptionToken, reconnectAttempts,
                             sessionTerminated, explicitSessionEndRequested, transcriptBuffer,
                             hist>>
         ELSE /\ forwarded' = ForwardIfOpen(geminiWs, forwarded, id)
              /\ frameHist' = IF m.kind = "media" THEN Append(frameHist, m.data) ELSE frameHist
              /\ UNCHANGED <<storeV, clientOut, geminiWs, connPc, timerDue, connToken, setupHandle,
                             memV, uploads, hist>>
  /\ handledOpen' = IF geminiWs = "OPEN" THEN handledOpen \cup {clientMsgs + 1} ELSE handledOpen
  /\ browserWs' = SocketAfterMessage(m.kind, browserWs)
  /\ UNCHANGED <<now, genPending, genRunning, conn, reconnectsStarted,
                 synthesisCalls, uploadsFailed>>

\* uploadFrame has resolved: the frame is pushed, and the push awaited
UploadDone(i) ==
  /\ i \in 1..Len(uploads)
  /\ uploads' = RemoveAt(uploads, i)
  /\ inflight' = AddWrite(inflight,
                          Write("pushFrame", [url |-> uploads[i].timestamp,
                                              timestamp |-> uploads[i].timestamp],
                                "frameFwd", uploads[i].msg))
  /\ UNCHANGED <<now, db, clientV, upV, memV, genPending, genRunning, histV>>

\* a catch that reports the failure to the client
UploadFailReported(i) ==
  /\ i \in 1..Len(uploads)
  /\ uploads' = RemoveAt(uploads, i)
  /\ forwarded' = ForwardIfOpen(geminiWs, forwarded, uploads[i].msg)
  /\ uploadsFailed' = uploadsFailed + 1
  /\ clientOut' = Append(clientOut, [type |-> "error", message |-> "Frame upload failed"])
  /\ UNCHANGED <<now, storeV, browserWs, clientMsgs, geminiWs, connPc, timerDue, connToken,
                 setupHandle, memV, genPending, genRunning, conn, hist, reconnectsStarted,
                 synthesisCalls, frameHist, handledOpen>>

\* a catch that takes the fingerprint back, so that the image is tried again
UploadFailRollback(i) ==
  /\ i \in 1..Len(uploads)
  /\ uploads' = RemoveAt(uploads, i)
  /\ forwarded' = ForwardIfOpen(geminiWs, forwarded, uploads[i].msg)
  /\ uploadsFailed' = uploadsFailed + 1
  /\ lastFrameHash' = <<>>
  /\ UNCHANGED <<now, storeV, clientV, geminiWs, connPc, timerDue, connToken, setupHandle,
                 resumptionToken, reconnectAttempts, sessionTerminated,
                 explicitSessionEndRequested, transcriptBuffer,
                 genPending, genRunning, conn, hist, reconnectsStarted, synthesisCalls,
                 frameHist, handledOpen>>

\* uploadFrame has thrown: the catch logs, and the handler goes on to forward
UploadFail(i) ==
  /\ i \in 1..Len(uploads)
  /\ uploads' = RemoveAt(uploads, i)
  /\ forwarded' = ForwardIfOpen(geminiWs, forwarded, uploads[i].msg)
  /\ uploadsFailed' = uploadsFailed + 1
  /\ UNCHANGED <<now, storeV, clientV, geminiWs, connPc, timerDue, connToken, setupHandle, memV,
                 genPending, genRunning, conn, hist, reconnectsStarted, synthesisCalls,
                 frameHist, handledOpen>>

\* the awaited $push of a frame has been rejected: nothing is stored, the
\* catch logs, and the handler goes on to forward
PushFail(w) ==
  /\ BagIn(w, inflight)
  /\ w.op = "pushFrame"
  /\ inflight' = DropWrite(inflight, w)
  /\ forwarded' = ForwardIfOpen(geminiWs, forwarded, w.msg)
  /\ uploadsFailed' = uploadsFailed + 1
  /\ UNCHANGED <<now, db, clientV, geminiWs, connPc, timerDue, connToken, setupHandle, memV,
                 uploads, genPending, genRunning, conn, hist, reconnectsStarted,
                 synthesisCalls, frameHist, handledOpen>>

\* WebSocket.close(): a socket still connecting gives up its handshake
CloseSocket(ws) ==
  IF ws = "OPEN" THEN "CLOSING"
  ELSE IF ws = "CONNECTING" THEN "ABORTING"
  ELSE ws

\* a close handler that does not look at the explicit end
CloseWriteAlwaysProcessing(explicit, t) == Write("set", ProcessingFields(t), "closeGen", 0)

\* the update the close handler awaits, and what follows it
CloseWrite(explicit, t) ==
  IF explicit THEN Write("set", ExplicitCloseFields(t), "closeEnded", 0)
  ELSE Write("set", ProcessingFields(t), "closeGen", 0)

\* browserWs.on('close') up to its awaited update
BrowserClose ==
  /\ browserWs = "OPEN"
  /\ browserWs' = "CLOSED"
  /\ sessionTerminated' = TRUE
  /\ LET e == flushTranscriptBuffer([buf |-> transcriptBuffer, inflight |-> inflight,
                                     out |-> clientOut], now)
     IN  /\ transcriptBuffer' = e.buf
         /\ clientOut' = e.out
         /\ inflight' = AddWrite(e.inflight, CloseWrite(explicitSessionEndRequested, now))
  /\ geminiWs' = CloseSocket(geminiWs)
  /\ hist' = Mark(hist)
  /\ UNCHANGED <<now, db, clientMsgs, connPc, timerDue, connToken, setupHandle, forwarded,
                 resumptionToken, reconnectAttempts, lastFrameHash,
                 explicitSessionEndRequested, taskV, conn, reconnectsStarted,
                 synthesisCalls, frameHist, handledOpen, uploadsFailed>>

\* The store applies one of the writes in flight; an awaited write returns
\* and its handler goes on: the end_session handler acknowledges, the close
\* handler calls generateDocument, the message handler forwards its message.
DbApply(w) ==
  /\ BagIn(w, inflight)
  /\ LET q == DropWrite(inflight, w)
     IN  /\ db' = ApplyWrite(db, w)
         /\ inflight' = q
         /\ clientOut' = IF w.then = "endAck"
                         THEN Append(clientOut, [type |-> "session_ended", reason |-> "user_ended"])
                         ELSE clientOut
         /\ genPending' = IF w.then = "closeGen" THEN genPending + 1 ELSE genPending
         /\ synthesisCalls' = IF w.then = "closeGen" THEN synthesisCalls + 1 ELSE synthesisCalls
         /\ forwarded' = IF w.then = "frameFwd" THEN ForwardIfOpen(geminiWs, forwarded, w.msg)
                         ELSE forwarded
  /\ UNCHANGED <<now, browserWs, clientMsgs, geminiWs, connPc, timerDue, connToken, setupHandle, memV,
                 uploads, genRunning, conn, hist, reconnectsStarted, frameHist, handledOpen, uploadsFailed>>

\* ------------------------------------------------- document generation
\* the status written without the document
CompletedFieldsStatusOnly == [status |-> "completed"]

\* the $set of a generated document
CompletedFields == [document |-> "doc", documentHtml |-> "html", status |-> "completed"]

\* a catch that stores an empty document with the status
FailedFieldsWithDocument == [status |-> "failed", document |-> "empty", documentHtml |-> "empty"]

\* the $set of the catch
FailedFields == [status |-> "failed"]

\* generateDocument without its no-transcript test
GenReadNoSkip ==
  /\ genPending > 0
  /\ genPending' = genPending - 1
  /\ genRunning' = genRunning + 1
  /\ UNCHANGED <<now, storeV, clientV, upV, memV, uploads, histV>>

\* generateDocument: findOne and the no-transcript test
GenRead ==
  /\ genPending > 0
  /\ genPending' = genPending - 1
  /\ genRunning' = IF ~db.present \/ db.transcript = <<>> THEN genRunning ELSE genRunning + 1
  /\ UNCHANGED <<now, storeV, clientV, upV, memV, uploads, histV>>

\* generateDocument: the completion has returned a document
GenSucceed ==
  /\ genRunning > 0
  /\ genRunning' = genRunning - 1
  /\ db' = SetFields(db, CompletedFields)
  /\ UNCHANGED <<now, inflight, clientV, upV, memV, uploads, genPending, histV>>

\* generateDocument: the completion, or the parse of its text, has thrown
GenFail ==
  /\ genRunning > 0
  /\ genRunning' = genRunning - 1
  /\ db' = SetFields(db, FailedFields)
  /\ UNCHANGED <<now, inflight, clientV, upV, memV, uploads, genPending, histV>>

\* ------------------------------------------------------ REST endpoints
\* the $set of finalize with action discard
CancelledFields(session, t) ==
  [status |-> "cancelled",
   endedAt |-> IF session.endedAt # NoDate THEN session.endedAt ELSE <<t>>,
   resumptionHandle |-> Null]

\* the $set of finalize with action generate_partial
PartialFields(session, t) ==
  [status |-> "processing",
   endedAt |-> IF session.endedAt # NoDate THEN session.endedAt ELSE <<t>>,
   resumptionHandle |-> Null]

\* the $set of POST /:id/generate
GenerateFields == [status |-> "processing"]

\* GET /api/sessions/invite/:token: the HTTP status of the public lookup of
\* session document d; the lookup writes nothing
getSessionByToken(d) ==
  IF ~d.present THEN 404
  ELSE IF d.status = "completed" \/ d.status = "cancelled" THEN 400
  ELSE 200

\* POST /api/sessions/finalize for an existing session
finalizeSessionByInvite(action) ==
  /\ db.present
  /\ IF action = "discard"
     THEN /\ db' = SetFields(db, CancelledFields(db, now))
          /\ UNCHANGED genPending
     ELSE /\ db' = SetFields(db, PartialFields(db, now))
          /\ genPending' = genPending + 1
  /\ UNCHANGED <<now, inflight, clientV, upV, memV, uploads, genRunning, histV>>

\* POST /api/sessions/:id/generate for an existing session with a transcript
generateSessionDocument ==
  /\ db.present
  /\ db.transcript # <<>>
  /\ db' = SetFields(db, GenerateFields)
  /\ genPending' = genPending + 1
  /\ UNCHANGED <<now, inflight, clientV, upV, memV, uploads, genRunning, histV>>

\* ------------------------------------------------------- environments
UpMsg(tc, inp, out, h) ==
  [turnComplete |-> tc, inputText |-> inp, outputText |-> out, newHandle |-> h]

\* upstream messages of the lifecycle specification
LifecycleUpMsgs ==
  {UpMsg(FALSE, <<"a">>, <<>>, Null), UpMsg(TRUE, <<>>, <<>>, Null),
   UpMsg(FALSE, <<>>, <<>>, "h1"), UpMsg(FALSE, <<>>, <<>>, "h2")}

ClientMsg(kind, data) == [kind |-> kind, data |-> data]

\* room left by the bounds: writes in flight, fragments handled by a relay,
\* generateDocument calls running
RoomInflight == BagCardinality(inflight) < MaxInflight
RoomFrags(m) == FragCount(HistOfMessage(hist, m)) <= MaxFrags
RoomGen == genPending + genRunning < MaxGen

\* The lifecycle: one client after the other, an upstream that drops no
\* connection of a live session, a client that sends end_session or closes.
Next ==
  \/ conn < MaxConnections /\ handleSessionWebSocket
  \/ connectToGemini
  \/ GeminiOpen
  \/ \E m \in LifecycleUpMsgs : RoomInflight /\ RoomFrags(m) /\ GeminiMessage(m)
  \/ (sessionTerminated \/ geminiWs \in {"CLOSING", "ABORTING"}) /\ GeminiClose
  \/ clientMsgs < MaxClientMsgs /\ BrowserMessage(ClientMsg("end_session", <<>>))
  \/ BrowserClose
  \/ \E w \in BagToSet(inflight) : (w.then = "closeGen" => RoomGen) /\ DbApply(w)
  \/ GenRead
  \/ GenSucceed
  \/ GenFail
  \/ \E a \in {"discard", "generate_partial"} :
        (a = "generate_partial" => RoomGen) /\ finalizeSessionByInvite(a)
  \/ RoomGen /\ generateSessionDocument

Spec == Init /\ [][Next]_vars

\* One relay and its upstream connection manager, the clock running: the
\* upstream socket opens, fails or drops at any time, the client ends the
\* session or closes.  The clock is advanced while a backoff timer waits for
\* it, the only reader of the time in this specification.
NextReconnect ==
  \/ now < MaxTime /\ connPc = "timer" /\ now < timerDue /\ Tick
  \/ conn = 0 /\ handleSessionWebSocket
  \/ connectToGemini
  \/ GeminiOpen
  \/ GeminiClose
  \/ ReconnectTimer
  \/ clientMsgs < MaxClientMsgs /\ BrowserMessage(ClientMsg("end_session", <<>>))
  \/ BrowserClose
  \/ \E w \in BagToSet(inflight) : (w.then = "closeGen" => RoomGen) /\ DbApply(w)
  \/ GenRead

SpecReconnect == Init /\ [][NextReconnect]_vars

\* One relay from its connect to the document of its session: an upstream
\* that drops no connection of a live session, no REST call.
NextSession ==
  \/ conn = 0 /\ handleSessionWebSocket
  \/ connectToGemini
  \/ GeminiOpen
  \/ \E m \in LifecycleUpMsgs : RoomInflight /\ RoomFrags(m) /\ GeminiMessage(m)
  \/ (sessionTerminated \/ geminiWs \in {"CLOSING", "ABORTING"}) /\ GeminiClose
  \/ clientMsgs < MaxClientMsgs /\ BrowserMessage(ClientMsg("end_session", <<>>))
  \/ BrowserClose
  \/ \E w \in BagToSet(inflight) : (w.then = "closeGen" => RoomGen) /\ DbApply(w)
  \/ GenRead
  \/ GenSucceed
  \/ GenFail

SpecSession == Init /\ [][NextSession]_vars

\* texts of the aggregator's specification
WeUseAScript == <<"w", "e", " ", "u", "s", "e", " ", "a", " ", "s", "c", "r", "i", "p", "t">>
ToDeploy == <<" ", "t", "o", " ", "d", "e", "p", "l", "o", "y">>
WhatScript == <<"w", "h", "a", "t", " ", "s", "c", "r", "i", "p", "t">>
Blank == <<" ">>

\* upstream messages of the aggregator's specification: one fragment of the
\* employee or of the assistant, a turn completion
AggUpMsgs ==
  {UpMsg(FALSE, ToDeploy, <<>>, Null), UpMsg(FALSE, Blank, <<>>, Null),
   UpMsg(FALSE, <<>>, WhatScript, Null), UpMsg(TRUE, <<>>, <<>>, Null)}

\* upstream messages of the scenario: its three fragments, a turn completion
ScenarioUpMsgs ==
  {UpMsg(FALSE, WeUseAScript, <<>>, Null), UpMsg(FALSE, ToDeploy, <<>>, Null),
   UpMsg(FALSE, <<>>, WhatScript, Null), UpMsg(TRUE, <<>>, <<>>, Null)}

\* The transcript aggregator of one relay: fragments and turn completions
\* from upstream, then end_session or the close of the client.
NextAgg ==
  \/ conn = 0 /\ handleSessionWebSocket
  \/ connectToGemini
  \/ GeminiOpen
  \/ \E m \in AggUpMsgs :
        /\ RoomInflight
        /\ FragCount(HistOfMessage(hist, m)) <= MaxAggFrags
        /\ GeminiMessage(m)
  \/ (sessionTerminated \/ geminiWs \in {"CLOSING", "ABORTING"}) /\ GeminiClose
  \/ clientMsgs < MaxClientMsgs /\ BrowserMessage(ClientMsg("end_session", <<>>))
  \/ BrowserClose
  \/ \E w \in BagToSet(inflight) : (w.then = "closeGen" => RoomGen) /\ DbApply(w)

SpecAgg == Init /\ [][NextAgg]_vars

\* The same relay fed the fragments of the scenario.
NextScenario ==
  \/ conn = 0 /\ handleSessionWebSocket
  \/ connectToGemini
  \/ GeminiOpen
  \/ \E m \in ScenarioUpMsgs :
        /\ RoomInflight
        /\ FragCount(HistOfMessage(hist, m)) <= MaxScenarioFrags
        /\ GeminiMessage(m)
  \/ (sessionTerminated \/ geminiWs \in {"CLOSING", "ABORTING"}) /\ GeminiClose
  \/ BrowserClose
  \/ \E w \in BagToSet(inflight) : (w.then = "closeGen" => RoomGen) /\ DbApply(w)

SpecScenario == Init /\ [][NextScenario]_vars

\* image payloads (character codes) of the frame detector's specification:
\* "Aa" and "BB" have the same length and the same fingerprint, "//9FEp"
\* and "1WR1aGP" have different lengths and the same fingerprint
FramePayloads ==
  {<<65, 97>>, <<66, 66>>, <<67>>,
   <<47, 47, 57, 70, 69, 112>>, <<49, 87, 82, 49, 97, 71, 80>>}

\* The frame detector of one relay: image chunks from the client, uploads
\* that succeed or fail, then the close of the client.
NextFrame ==
  \/ conn = 0 /\ handleSessionWebSocket
  \/ connectToGemini
  \/ GeminiOpen
  \/ \E p \in FramePayloads :
        clientMsgs < MaxFrameMsgs /\ BrowserMessage(ClientMsg("media", p))
  \/ \E i \in 1..Len(uploads) : UploadDone(i)
  \/ \E i \in 1..Len(uploads) : UploadFail(i)
  \/ (sessionTerminated \/ geminiWs \in {"CLOSING", "ABORTING"}) /\ GeminiClose
  \/ BrowserClose
  \/ \E w \in BagToSet(inflight) : (w.then = "closeGen" => RoomGen) /\ DbApply(w)

SpecFrame == Init /\ [][NextFrame]_vars

\* what the client of the message handler's specification sends: the four
\* kinds of message the handler tells apart, two images among them
ClientMessages ==
  {ClientMsg("end_session", <<>>), ClientMsg("malformed", <<>>), ClientMsg("other", <<>>),
   ClientMsg("media", <<65, 97>>), ClientMsg("media", <<67>>)}

\* The message handler of one relay: a client that sends messages of every
\* kind in any order, before and after its end_session, and then closes.
NextClient ==
  \/ conn = 0 /\ handleSessionWebSocket
  \/ connectToGemini
  \/ GeminiOpen
  \/ \E m \in ClientMessages : clientMsgs < MaxFrameMsgs /\ BrowserMessage(m)
  \/ \E i \in 1..Len(uploads) : UploadDone(i)
  \/ \E i \in 1..Len(uploads) : UploadFail(i)
  \/ \E w \in BagToSet(inflight) : PushFail(w)
  \/ (sessionTerminated \/ geminiWs \in {"CLOSING", "ABORTING"}) /\ GeminiClose
  \/ BrowserClose
  \/ \E w \in BagToSet(inflight) : (w.then = "closeGen" => RoomGen) /\ DbApply(w)

SpecClient == Init /\ [][NextClient]_vars

\* upstream messages of the accept specification: resumption handles
AcceptUpMsgs == {UpMsg(FALSE, <<>>, <<>>, "h1"), UpMsg(FALSE, <<>>, <<>>, "h2")}

\* The accept of a client: one client connection after the other for one
\* session, time passing between two of them, an upstream that hands out
\* resumption handles, a client that ends the session or closes.
NextAccept ==
  \/ now < conn /\ conn < MaxConnections /\ Quiescent /\ Tick
  \/ conn < MaxConnections /\ handleSessionWebSocket
  \/ connectToGemini
  \/ GeminiOpen
  \/ \E m \in AcceptUpMsgs : RoomInflight /\ GeminiMessage(m)
  \/ (sessionTerminated \/ geminiWs \in {"CLOSING", "ABORTING"}) /\ GeminiClose
  \/ clientMsgs < MaxClientMsgs /\ BrowserMessage(ClientMsg("end_session", <<>>))
  \/ BrowserClose
  \/ \E w \in BagToSet(inflight) : (w.then = "closeGen" => RoomGen) /\ DbApply(w)
  \/ GenRead

SpecAccept == Init /\ [][NextAccept]_vars

\* The final flush: an upstream that sends fragments of the employee's
\* speech, no turn completion, and nothing once the session is terminated,
\* so that the only flush of the relay is the one of its termination.
NextFinalFlush ==
  \/ conn = 0 /\ handleSessionWebSocket
  \/ connectToGemini
  \/ GeminiOpen
  \/ LET m == UpMsg(FALSE, <<"a">>, <<>>, Null)
     IN  ~sessionTerminated /\ RoomInflight /\ RoomFrags(m) /\ GeminiMessage(m)
  \/ (sessionTerminated \/ geminiWs \in {"CLOSING", "ABORTING"}) /\ GeminiClose
  \/ clientMsgs < MaxClientMsgs /\ BrowserMessage(ClientMsg("end_session", <<>>))
  \/ BrowserClose
  \/ \E w \in BagToSet(inflight) : (w.then = "closeGen" => RoomGen) /\ DbApply(w)
  \/ GenRead
  \/ GenSucceed
  \/ GenFail

SpecFinalFlush == Init /\ [][NextFinalFlush]_vars

\* upstream messages of the transcript specification
TranscriptUpMsgs == {UpMsg(FALSE, <<"a">>, <<>>, Null), UpMsg(TRUE, <<>>, <<>>, Null)}

\* The stored transcript and all that writes the session: one relay whose
\* upstream sends utterances at different times (the clock moves between
\* two utterances), the close of the client, the synthesis, the finalize
\* and generate requests.
NextTranscript ==
  \/ now < FragCount(hist) /\ transcriptBuffer = NoBuffer /\ ~sessionTerminated /\ Tick
  \/ conn = 0 /\ handleSessionWebSocket
  \/ connectToGemini
  \/ GeminiOpen
  \/ \E m \in TranscriptUpMsgs :
        /\ RoomInflight
        /\ FragCount(HistOfMessage(hist, m)) <= MaxAggFrags
        /\ GeminiMessage(m)
  \/ (sessionTerminated \/ geminiWs \in {"CLOSING", "ABORTING"}) /\ GeminiClose
  \/ BrowserClose
  \/ \E w \in BagToSet(inflight) : (w.then = "closeGen" => RoomGen) /\ DbApply(w)
  \/ GenRead
  \/ GenSucceed
  \/ GenFail
  \/ \E a \in {"discard", "generate_partial"} :
        (a = "generate_partial" => RoomGen) /\ finalizeSessionByInvite(a)
  \/ RoomGen /\ generateSessionDocument

SpecTranscript == Init /\ [][NextTranscript]_vars

\* Resumption: one client connection after the other for one session, an
\* upstream that hands out resumption handles and drops its connection at
\* any time, the relay reconnecting after its backoff.
NextResume ==
  \/ now < MaxTime /\ connPc = "timer" /\ now < timerDue /\ Tick
  \/ conn < MaxConnections /\ handleSessionWebSocket
  \/ connectToGemini
  \/ GeminiOpen
  \/ \E m \in AcceptUpMsgs : RoomInflight /\ GeminiMessage(m)
  \/ reconnectsStarted.total < MaxConnections /\ GeminiClose
  \/ (sessionTerminated \/ geminiWs \in {"CLOSING", "ABORTING"}) /\ GeminiClose
  \/ ReconnectTimer
  \/ clientMsgs < MaxClientMsgs /\ BrowserMessage(ClientMsg("end_session", <<>>))
  \/ BrowserClose
  \/ \E w \in BagToSet(inflight) : (w.then = "closeGen" => RoomGen) /\ DbApply(w)
  \/ GenRead

SpecResume == Init /\ [][NextResume]_vars

\* upstream messages of the turn specification: a fragment, a turn
\* completion alone, and a turn completion in the message that carries the
\* last fragment of the turn
TurnUpMsgs ==
  {UpMsg(FALSE, <<"a">>, <<>>, Null), UpMsg(TRUE, <<>>, <<>>, Null),
   UpMsg(TRUE, <<>>, <<"b">>, Null)}

\* The turns of one relay: fragments and turn completions from upstream,
\* then the close of the client.
NextTurn ==
  \/ conn = 0 /\ handleSessionWebSocket
  \/ connectToGemini
  \/ GeminiOpen
  \/ \E m \in TurnUpMsgs :
        /\ RoomInflight
        /\ FragCount(HistOfMessage(hist, m)) <= MaxAggFrags
        /\ GeminiMessage(m)
  \/ (sessionTerminated \/ geminiWs \in {"CLOSING", "ABORTING"}) /\ GeminiClose
  \/ BrowserClose
  \/ \E w \in BagToSet(inflight) : (w.then = "closeGen" => RoomGen) /\ DbApply(w)
  \/ GenRead

SpecTurn == Init /\ [][NextTurn]_vars

\* The explicit end of one relay: the client sends end_session, asks the
\* finalize endpoint for a partial document while its socket is still
\* open, and closes the socket afterwards, at any moment of the synthesis.
NextFinalize ==
  \/ conn = 0 /\ handleSessionWebSocket
  \/ connectToGemini
  \/ GeminiOpen
  \/ \E m \in TranscriptUpMsgs :
        /\ RoomInflight
        /\ FragCount(HistOfMessage(hist, m)) <= MaxAggFrags
        /\ GeminiMessage(m)
  \/ (sessionTerminated \/ geminiWs \in {"CLOSING", "ABORTING"}) /\ GeminiClose
  \/ clientMsgs < MaxClientMsgs /\ BrowserMessage(ClientMsg("end_session", <<>>))
  \/ /\ explicitSessionEndRequested
     /\ browserWs = "OPEN"
     /\ RoomGen
     /\ db.status \notin {"processing", "completed", "failed"}
     /\ finalizeSessionByInvite("generate_partial")
  \/ /\ explicitSessionEndRequested
     /\ genPending + genRunning > 0 \/ db.status \in {"processing", "completed", "failed"}
     /\ BrowserClose
  \/ \E w \in BagToSet(inflight) : DbApply(w)
  \/ GenRead
  \/ GenSucceed
  \/ GenFail

SpecFinalize == Init /\ [][NextFinalize]_vars

\* ------------------------------------------------------------- claims
MaxReconnectMsg == [type |-> "session_ended", reason |-> "max_reconnects"]

\* C1: once sessionTerminated is set, this relay starts no upstream
\* connection attempt (no call of connectToGemini), a backoff timer set
\* before the termination and firing after it included.
C1_NoAttemptAfterTermination ==
  [][(sessionTerminated /\ conn' = conn) => ~(connPc # "token" /\ connPc' = "token")]_vars

\* C2 as stated: one relay starts at most 5 reconnect attempts, over any
\* sequence of upstream opens and closes.
C2_TotalAttemptsBounded == reconnectsStarted.total <= MAX_RECONNECTS

\* C2 amended: one relay starts at most 5 reconnect attempts between two
\* opens of its upstream socket (and before the first): the counter is set
\* back to zero by every open.
C2_AttemptsSinceOpenBounded == reconnectsStarted.sinceOpen <= MAX_RECONNECTS

\* the fifth attempt in a row has failed and the client has been told
C2_Witness ==
  /\ reconnectsStarted.sinceOpen = MAX_RECONNECTS
  /\ geminiWs = "CLOSED"
  /\ connPc = "idle"
  /\ clientOut # <<>>
  /\ clientOut[Len(clientOut)] = MaxReconnectMsg

UserEndedMsg == [type |-> "session_ended", reason |-> "user_ended"]

\* the end_session handler has come to its end: its awaited update has been
\* applied and the client is told
EndSessionHandled ==
  /\ Len(clientOut') = Len(clientOut) + 1
  /\ clientOut'[Len(clientOut')] = UserEndedMsg

\* C3: when the end_session handler has run, the stored session has status
\* ended, an endedAt and no resumption handle, whatever handle was stored
\* before.
C3_EndSessionLeavesEndedAndCleared ==
  [][EndSessionHandled => /\ db'.status = "ended"
                          /\ db'.endedAt # NoDate
                          /\ db'.resumptionHandle = Null]_vars

\* the client connection closes
ClientCloses == browserWs = "OPEN" /\ browserWs' = "CLOSED"

\* the update the close handler of an unended session has to send
ProcessingWrite(t) ==
  [op |-> "set",
   arg |-> [status |-> "processing", endedAt |-> <<t>>, resumptionHandle |-> Null],
   then |-> "closeGen", msg |-> 0]

\* the writes in flight after which generateDocument is called
CloseGenInflight ==
  LET S == {w \in BagToSet(inflight) : w.then = "closeGen"}
  IN  IF S = {} THEN 0 ELSE BagCardinality([w \in S |-> CopiesIn(w, inflight)])

\* what a flush of buffer b at time t has to add to the frames sent and to
\* the writes in flight
FlushedFrom(b, t) ==
  LET txt == Trim(b.text)
  IN  IF b = NoBuffer \/ txt = <<>> THEN clientOut' = clientOut
      ELSE /\ clientOut' = Append(clientOut, [type |-> "transcript", speaker |-> b.speaker,
                                              text |-> txt])
           /\ BagIn([op |-> "pushTranscript",
                     arg |-> [speaker |-> b.speaker, text |-> txt, timestamp |-> t],
                     then |-> "none", msg |-> 0], inflight')

\* C4, the close handler: when the client closes and no end_session was
\* handled, sessionTerminated is set, the buffer is flushed and left empty,
\* the upstream socket is no longer open or opening, and the update to
\* processing, with endedAt and a null handle, is sent, generateDocument not
\* yet called.
C4_CloseHandler ==
  (ClientCloses /\ ~explicitSessionEndRequested) =>
     /\ sessionTerminated'
     /\ transcriptBuffer' = NoBuffer
     /\ FlushedFrom(transcriptBuffer, now)
     /\ geminiWs' \notin {"OPEN", "CONNECTING"}
     /\ BagIn(ProcessingWrite(now), inflight')
     /\ synthesisCalls' = synthesisCalls
     /\ UNCHANGED <<db, genPending, genRunning>>

\* C4, the call: generateDocument is called by the step that applies the
\* update to processing, for the first time, and the step does not wait for it.
C4_SynthesisCall ==
  (synthesisCalls' # synthesisCalls /\ conn' = conn) =>
     /\ synthesisCalls = 0 /\ synthesisCalls' = 1
     /\ \E w \in BagToSet(inflight) :
          /\ w.then = "closeGen"
          /\ w.arg.status = "processing" /\ w.arg.resumptionHandle = Null
          /\ w.arg.endedAt # NoDate
          /\ inflight' = inflight (-) SetToBag({w})
          /\ db'.status = "processing" /\ db'.resumptionHandle = Null
          /\ db'.endedAt = w.arg.endedAt
     /\ genPending' = genPending + 1
     /\ genRunning' = genRunning

\* C4, once: after such a close, the update waits to be applied or
\* generateDocument has been called once, never both and never twice.
C4_ExactlyOnce ==
  (browserWs = "CLOSED" /\ db.present /\ ~explicitSessionEndRequested)
    => synthesisCalls + CloseGenInflight = 1

C5_TerminalStatusHasNoHandle ==
  db.status \in {"processing", "ended", "cancelled", "completed", "failed"}
    => db.resumptionHandle = Null

LifecycleEdges ==
  {<<"pending", "active">>, <<"active", "processing">>, <<"active", "ended">>,
   <<"active", "cancelled">>, <<"processing", "completed">>, <<"processing", "failed">>}

\* C6: every change of the stored status follows an edge of the lifecycle,
\* and so none leaves completed, ended or cancelled.
C6_StatusFollowsLifecycle ==
  [][db'.status # db.status => <<db.status, db'.status>> \in LifecycleEdges]_vars

\* The runs of a history: done, the runs of fragments of one speaker ended
\* by a fragment of the other speaker or by a flush trigger, in order, and
\* pending, the run that nothing has ended yet.
NoRun == [speaker |-> "none", text |-> <<>>]

RECURSIVE RunsOf(_, _, _)
RunsOf(h, cur, acc) ==
  IF h = <<>> THEN [done |-> acc, pending |-> cur]
  ELSE LET x == Head(h)
           ended == IF cur = NoRun THEN acc ELSE Append(acc, cur)
       IN  IF x.k = "flush" THEN RunsOf(Tail(h), NoRun, ended)
           ELSE IF cur # NoRun /\ cur.speaker = x.speaker
           THEN RunsOf(Tail(h), [speaker |-> cur.speaker, text |-> cur.text \o x.text], acc)
           ELSE RunsOf(Tail(h), [speaker |-> x.speaker, text |-> x.text], ended)

Runs == RunsOf(hist, NoRun, <<>>)

\* the utterance of a run
UtteranceOf(run) == [speaker |-> run.speaker, text |-> Trim(run.text)]

\* the utterances sent to the client, and the number of utterances given to
\* the store (applied or in flight)
IsTranscriptFrame(f) == f.type = "transcript"
Emitted(out) ==
  LET t == SelectSeq(out, IsTranscriptFrame)
  IN  [i \in 1..Len(t) |-> [speaker |-> t[i].speaker, text |-> t[i].text]]
PushInflight(q) ==
  LET S == {w \in BagToSet(q) : w.op = "pushTranscript"}
  IN  IF S = {} THEN 0 ELSE BagCardinality([w \in S |-> CopiesIn(w, q)])
Stored(d) == [i \in 1..Len(d.transcript) |->
                [speaker |-> d.transcript[i].speaker, text |-> d.transcript[i].text]]
PushOf(u, t) ==
  [op |-> "pushTranscript", arg |-> [speaker |-> u.speaker, text |-> u.text, timestamp |-> t],
   then |-> "none", msg |-> 0]

\* this step handles a flush trigger (a turn completion, end_session or the
\* close of the client) that ends a pending run
TriggerEndsRun ==
  /\ Runs.pending # NoRun
  /\ Len(hist') > Len(hist)
  /\ hist'[Len(hist) + 1] = FlushMark

\* this step handles one more fragment of the pending run's speaker
FragmentJoinsRun ==
  /\ Runs.pending # NoRun
  /\ Len(hist') = Len(hist) + 1
  /\ hist'[Len(hist')].k = "frag"
  /\ hist'[Len(hist')].speaker = Runs.pending.speaker

\* exactly the utterance u is sent to the client and given to the store
OneUtterance(u) ==
  /\ Emitted(clientOut') = Append(Emitted(clientOut), u)
  /\ PushInflight(inflight') = PushInflight(inflight) + 1
  /\ CopiesIn(PushOf(u, now), inflight') = CopiesIn(PushOf(u, now), inflight) + 1
  /\ db' = db

NoUtterance ==
  /\ Emitted(clientOut') = Emitted(clientOut)
  /\ PushInflight(inflight') = PushInflight(inflight)
  /\ db' = db

\* C7 as stated: fragments of one speaker with no flush trigger in between
\* give nothing until the trigger, and at the trigger exactly one utterance,
\* the trimmed concatenation, stored and sent.
C7_OneUtterancePerRun ==
  [][/\ TriggerEndsRun => OneUtterance(UtteranceOf(Runs.pending))
     /\ FragmentJoinsRun => NoUtterance]_vars

\* C7 amended: ... at the trigger exactly one utterance when the trimmed
\* concatenation is not empty, and none when the fragments hold white space
\* only.
C7_OneUtterancePerNonBlankRun ==
  [][/\ TriggerEndsRun =>
          IF Trim(Runs.pending.text) # <<>> THEN OneUtterance(UtteranceOf(Runs.pending))
          ELSE NoUtterance
     /\ FragmentJoinsRun => NoUtterance]_vars

\* two fragments of the employee and a trigger have given one utterance
C7_Witness ==
  /\ hist = <<Frag("employee", Blank), Frag("employee", ToDeploy), FlushMark>>
  /\ Emitted(clientOut) = <<[speaker |-> "employee",
                             text |-> <<"t", "o", " ", "d", "e", "p", "l", "o", "y">>]>>
  /\ Stored(db) = Emitted(clientOut)
  /\ PushInflight(inflight) = 0

\* C8: when every run has been ended by a trigger or by the other speaker
\* and every utterance given to the store has been applied, the stored
\* transcript is the utterances of the runs, one for each, in the order the
\* runs arrived (the runs taken to hold more than white space: see C9).
C8_StoredRunsInOrder ==
  LET done == Runs.done
  IN  (/\ conn = 1
       /\ Runs.pending = NoRun
       /\ PushInflight(inflight) = 0
       /\ \A i \in 1..Len(done) : Trim(done[i].text) # <<>>)
        => Stored(db) = [i \in 1..Len(done) |-> UtteranceOf(done[i])]

\* this step flushes the buffer: a trigger, or a fragment of the other speaker
FlushStep ==
  /\ transcriptBuffer # NoBuffer
  /\ Len(hist') > Len(hist)
  /\ \/ hist'[Len(hist) + 1] = FlushMark
     \/ hist'[Len(hist) + 1].speaker # transcriptBuffer.speaker

\* the buffer left by a step that has flushed: the fragment the step has
\* handled after the flush, when there is one
BufferAfter(h) ==
  IF h[Len(h)].k = "frag" THEN [speaker |-> h[Len(h)].speaker, text |-> h[Len(h)].text]
  ELSE NoBuffer

\* C9: a flush of a buffer whose text is empty once trimmed stores nothing
\* and sends nothing, and every flush leaves the buffer empty (nothing of the
\* flushed text stays in it).
C9_FlushClearsBuffer ==
  [][FlushStep =>
       /\ transcriptBuffer' = BufferAfter(hist')
       /\ Trim(transcriptBuffer.text) = <<>> => NoUtterance]_vars

\* a buffer of white space has been flushed by a turn completion
C9_Witness ==
  /\ hist = <<Frag("employee", Blank), FlushMark>>
  /\ browserWs = "OPEN"
  /\ transcriptBuffer = NoBuffer
  /\ clientOut = <<>>
  /\ db.transcript = <<>>
  /\ inflight = EmptyBag

\* frames given to the store and not yet applied
FramePushInflight ==
  LET S == {w \in BagToSet(inflight) : w.op = "pushFrame"}
  IN  IF S = {} THEN 0 ELSE BagCardinality([w \in S |-> CopiesIn(w, inflight)])

\* the relay has considered payload p twice in a row and nothing else, and
\* no upload or append is still under way
SameTwiceDone ==
  /\ conn = 1
  /\ Len(frameHist) = 2
  /\ frameHist[1] = frameHist[2]
  /\ uploads = <<>>
  /\ FramePushInflight = 0

\* this step considers the payload that was considered last
RepeatedPayload ==
  /\ frameHist # <<>>
  /\ Len(frameHist') = Len(frameHist) + 1
  /\ frameHist'[Len(frameHist')] = frameHist[Len(frameHist)]

\* the step starts no upload and gives nothing to the store
NothingSaved ==
  /\ uploads' = uploads
  /\ inflight' = inflight
  /\ db' = db
  /\ lastFrameHash' = lastFrameHash

\* payloads of the history that differ from the one before them
ChangedCount(h) == Cardinality({i \in 1..Len(h) : i = 1 \/ h[i] # h[i - 1]})

\* C10 as stated: the same payload twice in a row gives exactly one stored
\* frame reference, and the second consideration uploads and appends nothing.
C10_SameTwiceStoresOne ==
  [](SameTwiceDone => Len(db.frames) = 1) /\ [][RepeatedPayload => NothingSaved]_vars

\* C10 amended: the same payload twice in a row gives at most one stored
\* frame reference, exactly one when the upload of the first has succeeded
\* and none when it has thrown; the second consideration uploads and appends
\* nothing.
C10_SameTwiceStoresAtMostOne ==
  /\ [](SameTwiceDone => Len(db.frames) = 1 - uploadsFailed)
  /\ [](conn = 1 => Len(db.frames) + FramePushInflight + Len(uploads) + uploadsFailed
                      <= ChangedCount(frameHist))
  /\ [][RepeatedPayload => NothingSaved]_vars

\* the same payload twice, one upload, one frame stored
C10_Witness ==
  /\ SameTwiceDone
  /\ frameHist = <<(<<65, 97>>), (<<65, 97>>)>>
  /\ uploadsFailed = 0
  /\ Len(db.frames) = 1
  /\ inflight = EmptyBag

\* the relay has considered two payloads that differ and nothing else, both
\* uploads have succeeded and nothing is still under way
TwoDifferentDone ==
  /\ conn = 1
  /\ Len(frameHist) = 2
  /\ frameHist[1] # frameHist[2]
  /\ uploads = <<>>
  /\ FramePushInflight = 0
  /\ uploadsFailed = 0

\* C11: two consecutive payloads that differ in content or in length give
\* two stored frame references, and two consecutive payloads of different
\* lengths never have the same fingerprint.
C11_DistinctPayloadsStoreTwo ==
  /\ TwoDifferentDone => Len(db.frames) = 2
  /\ \A i \in 1..(Len(frameHist) - 1) :
        Len(frameHist[i]) # Len(frameHist[i + 1])
          => simpleHash(frameHist[i]) # simpleHash(frameHist[i + 1])

\* the pending backoff timer fires: a reconnect attempt is started
TimerFires == connPc = "timer" /\ connPc' = "token"

\* C12: the Nth reconnect attempt in a row is started no sooner than
\* N x 2 seconds after the upstream close that scheduled it.
C12_LinearBackoff ==
  [][TimerFires => now >= reconnectsStarted.closedAt + 2 * reconnectsStarted'.sinceOpen]_vars

\* the fifth attempt in a row is started, each one as soon as it could be
C12_Witness ==
  /\ reconnectsStarted.sinceOpen = MAX_RECONNECTS
  /\ connPc = "token"
  /\ now = 30

\* the upstream socket closes with the counter at the ceiling, session live
CloseAtCeiling ==
  /\ geminiWs # "CLOSED"
  /\ geminiWs' = "CLOSED"
  /\ reconnectAttempts = MAX_RECONNECTS
  /\ ~sessionTerminated

GaveUp == \E i \in 1..Len(clientOut) : clientOut[i] = MaxReconnectMsg

\* C13: when the upstream socket closes with the attempt counter at 5 and
\* the session not terminated, the client is sent session_ended with reason
\* max_reconnects, and from then on the relay starts no upstream attempt.
C13_GivesUpAtCeiling ==
  /\ [][CloseAtCeiling => clientOut' = Append(clientOut, MaxReconnectMsg)]_vars
  /\ [][(GaveUp /\ conn' = conn) =>
          /\ ~(connPc # "token" /\ connPc' = "token")
          /\ ~(geminiWs # "CONNECTING" /\ geminiWs' = "CONNECTING")]_vars

\* the relay gave up, and the client ended the session afterwards
C13_Witness ==
  /\ GaveUp
  /\ reconnectAttempts = MAX_RECONNECTS
  /\ geminiWs = "CLOSED"
  /\ sessionTerminated

\* the message handler takes a message of the client
MessageHandled == clientMsgs' = clientMsgs + 1 /\ conn' = conn

\* C14: once an end_session message has been handled, no later message of
\* the same client connection is forwarded upstream, is routed to the frame
\* detector, or causes a store write.
C14_NothingAfterEndSession ==
  [][(explicitSessionEndRequested /\ MessageHandled) =>
        /\ forwarded' = forwarded
        /\ frameHist' = frameHist
        /\ uploads' = uploads
        /\ inflight' = inflight]_vars

\* generateDocument reads the session; a synthesis ends without a document
SynthesisStarts == genPending' < genPending
SynthesisFails == genRunning' < genRunning /\ db'.status # "completed"

C16_NoSessionFailsFast ==
  (conn > 0 /\ ~db.present) =>
     /\ clientOut = <<[type |-> "error", message |-> "Session not found"]>>
     /\ browserWs = "CLOSED"
     /\ db = NoSession
     /\ inflight = EmptyBag
     /\ geminiWs = "null"
     /\ connPc = "idle"
     /\ reconnectsStarted.total = 0

\* a client has connected with a token of no session
C16_Witness == conn > 0 /\ ~db.present /\ browserWs = "CLOSED"

\* a client connection is accepted for an existing session; the first
\* upstream socket of a relay opens
AcceptStep == conn' = conn + 1 /\ db.present
FirstOpen == geminiWs = "CONNECTING" /\ geminiWs' = "OPEN" /\ reconnectsStarted.total = 0

\* C17: accepting a client connection for an existing session writes status
\* 'active', startedAt only when it was unset (a populated startedAt is kept
\* across reconnects of the client) and endedAt null, and opens the upstream
\* connection with the stored resumptionHandle when there is one.
C17_Accept ==
  /\ [][AcceptStep =>
          /\ db' = [db EXCEPT !.status = "active",
                              !.startedAt = IF db.startedAt = NoDate THEN <<now>> ELSE @,
                              !.endedAt = NoDate]
          /\ connPc' = "token"
          /\ connToken' = db.resumptionHandle]_vars
  /\ [][FirstOpen => setupHandle' = connToken]_vars

\* the client has reconnected later: startedAt is the first connect's, and
\* the upstream socket was opened with the handle found in the store
C17_Witness ==
  /\ conn = 2
  /\ now > 0
  /\ db.status = "active"
  /\ db.startedAt = <<0>>
  /\ db.endedAt = NoDate
  /\ geminiWs = "OPEN"
  /\ reconnectsStarted.total = 0
  /\ setupHandle \in {"h1", "h2"}

\* C18: a client message that is neither end_session nor malformed is sent
\* upstream at most once, and only if the upstream socket is open at the
\* moment the message is handled: a message handled while it is not open is
\* never sent later.
C18_SentOnceAndOnlyIfOpenWhenHandled ==
  /\ \A i, j \in 1..Len(forwarded) : i # j => forwarded[i] # forwarded[j]
  /\ \A i \in 1..Len(forwarded) : forwarded[i] \in handledOpen

\* the messages sent upstream are in the order the client sent them
ForwardedInOrder ==
  \A i, j \in 1..Len(forwarded) : i < j => forwarded[i] < forwarded[j]

\* C19: forwarding a client message never waits for a frame upload or a
\* store write: a message is sent upstream by the step that handles it, an
\* image message included, so the messages reach upstream in the order they
\* were received.
C19_ForwardingDoesNotWait ==
  /\ [][(forwarded' # forwarded /\ conn' = conn) => MessageHandled]_vars
  /\ []ForwardedInOrder

\* the terminal status of the relay's termination takes effect in the store
TerminalStatusTakesEffect ==
  /\ sessionTerminated
  /\ db.status = "active"
  /\ db'.status \in {"ended", "processing"}

\* C20: on termination (end_session or the close of the client), the append
\* of the final flushed utterance takes effect in the store before the
\* terminal status does, so that the synthesis that follows a disconnect
\* reads a transcript with the final utterance.
C20_FinalFlushBeforeTerminalWrite ==
  /\ [][TerminalStatusTakesEffect => PushInflight(inflight) = 0]_vars
  /\ [][SynthesisStarts => Stored(db) = Emitted(clientOut)]_vars

\* the client connection has closed and its close handler has returned
CloseHandlerDone ==
  /\ conn > 0
  /\ browserWs = "CLOSED"
  /\ \A w \in BagToSet(inflight) : w.then \notin {"closeGen", "closeEnded"}

\* C21: once the client connection has closed and its close handler has run,
\* no upstream message, upstream open or close event or timer changes the
\* relay's memory: the utterance buffer, the reconnect counter, the handle
\* kept in memory, the last fingerprint, the upstream socket it holds.
C21_NoMutationAfterClose ==
  [][(CloseHandlerDone /\ conn' = conn) =>
        /\ transcriptBuffer' = transcriptBuffer
        /\ reconnectAttempts' = reconnectAttempts
        /\ resumptionToken' = resumptionToken
        /\ lastFrameHash' = lastFrameHash
        /\ ~(geminiWs # "CONNECTING" /\ geminiWs' = "CONNECTING")]_vars

\* the stored transcript only grows at its end; its entries are in the order
\* of their timestamps
TranscriptGrows ==
  /\ Len(db'.transcript) >= Len(db.transcript)
  /\ SubSeq(db'.transcript, 1, Len(db.transcript)) = db.transcript
TimestampsInOrder ==
  \A i, j \in 1..Len(db.transcript) :
     i < j => db.transcript[i].timestamp <= db.transcript[j].timestamp

\* C22: the stored transcript is append-only over relay events, synthesis
\* runs and finalize and generate requests (an earlier transcript is a prefix
\* of every later one), and the timestamps of its entries never decrease
\* along the list.
C22_TranscriptAppendOnlyInTimeOrder ==
  /\ [][TranscriptGrows]_vars
  /\ []TimestampsInOrder

\* the upload of a frame, or the append of its reference, fails
FrameSaveFails == uploadsFailed' = uploadsFailed + 1

\* C23: when the upload of a frame or the append to the frame list fails, no
\* frame reference is appended, nothing is sent to the client and the client
\* connection stays as it is; messages of the client are handled and
\* forwarded afterwards as before.
C23_FrameFailureSwallowed ==
  [][FrameSaveFails =>
        /\ db' = db
        /\ FramePushInflight' <= FramePushInflight
        /\ clientOut' = clientOut
        /\ browserWs' = browserWs
        /\ UNCHANGED <<lastFrameHash, sessionTerminated, explicitSessionEndRequested, geminiWs>>]_vars

\* a frame was lost, the client is still connected, and a message it sent
\* after the one with the lost frame has been forwarded
C23_Witness ==
  /\ uploadsFailed > 0
  /\ db.frames = <<>>
  /\ browserWs = "OPEN"
  /\ clientOut = <<>>
  /\ forwarded = <<1, 2>>
  /\ Len(frameHist) = 1

\* C24: a client message that is not JSON is dropped: the step that handles
\* it forwards nothing upstream, writes nothing to the store, starts no
\* upload and leaves the client connection open; a well-formed message sent
\* after it is handled as usual.
C24_MalformedDropped ==
  [][BrowserMessage(ClientMsg("malformed", <<>>)) =>
        /\ forwarded' = forwarded
        /\ db' = db
        /\ inflight' = inflight
        /\ uploads' = uploads
        /\ clientOut' = clientOut
        /\ browserWs' = "OPEN"
        /\ UNCHANGED <<geminiWs, memV>>]_vars

\* the first message was not JSON, the second was forwarded
C24_Witness ==
  /\ clientMsgs = 2
  /\ frameHist = <<>>
  /\ ~sessionTerminated
  /\ forwarded = <<2>>
  /\ handledOpen = {1, 2}
  /\ browserWs = "OPEN"

\* C25: when generateDocument runs for a session whose stored transcript is
\* empty, or whose record is missing, the synthesis is not called and no
\* field of the session, its status included, is changed.
C25_EmptyTranscriptSkipsSynthesis ==
  [][(SynthesisStarts /\ (~db.present \/ db.transcript = <<>>)) =>
        /\ genRunning' = genRunning
        /\ db' = db
        /\ inflight' = inflight]_vars

\* the client closed before any utterance was stored: generateDocument has
\* run and returned, and the session is as the close handler left it
C25_Witness ==
  /\ synthesisCalls > 0
  /\ genPending = 0
  /\ genRunning = 0
  /\ inflight = EmptyBag
  /\ db.transcript = <<>>
  /\ db.status = "processing"
  /\ db.document = "null"

\* the stored status becomes 'completed' or 'failed'; a synthesis ends
BecomesCompletedOrFailed == db'.status \in {"completed", "failed"} /\ db'.status # db.status
SynthesisEnds == genRunning' < genRunning

\* C26: status 'completed' and status 'failed' are written only by
\* generateDocument, when its synthesis call has returned or thrown; the
\* write of 'completed' carries the document and its HTML, so a session with
\* status 'completed' has a document.
C26_CompletedHasDocument ==
  /\ [][BecomesCompletedOrFailed => SynthesisEnds]_vars
  /\ [](db.status = "completed" => db.document # "null" /\ db.documentHtml # "null")

\* a synthesis has succeeded
C26_Witness ==
  /\ db.status = "completed"
  /\ db.document = "doc"
  /\ genRunning = 0

\* the relay creates an upstream socket; a call of connectToGemini is under
\* way (waiting for its timer or for the access token)
SocketCreated == connPc = "token" /\ connPc' = "idle"
ConnectPending == connPc \in {"timer", "token"}

\* C27: a relay has at most one upstream socket that is connecting or open:
\* it creates a socket, and prepares to create one, only when the socket it
\* holds has closed (or when it holds none yet).
C27_OneUpstreamSocket ==
  /\ [](ConnectPending => geminiWs \in {"null", "CLOSED"})
  /\ [][SocketCreated => geminiWs \in {"null", "CLOSED"} /\ geminiWs' = "CONNECTING"]_vars

\* the socket of a reconnect attempt is open
C27_Witness ==
  /\ reconnectsStarted.total > 0
  /\ geminiWs = "OPEN"
  /\ connPc = "idle"

\* the socket of a reconnect attempt opens and sends its setup message
ReconnectHandshake ==
  /\ geminiWs = "CONNECTING"
  /\ geminiWs' = "OPEN"
  /\ reconnectsStarted.total > 0

\* the most recently known handle of a live relay: the last one received,
\* or else the one in the store, which nothing has written since the connect
KnownHandle == IF resumptionToken # Null THEN resumptionToken ELSE db.resumptionHandle

\* upstream hands the relay a new handle
HandleReceived == resumptionToken' # resumptionToken /\ conn' = conn

\* C28: the setup message of every reconnect carries the most recently known
\* resumption handle: the last one this relay received from upstream, or, if
\* it has received none, the one stored in the session when the client
\* connected; and a received handle is also written to the store.
C28_ReconnectCarriesKnownHandle ==
  /\ [][(ReconnectHandshake /\ ~sessionTerminated) => setupHandle' = KnownHandle]_vars
  /\ [][HandleReceived =>
          BagIn(Write("set", [resumptionHandle |-> resumptionToken'], "none", 0), inflight')]_vars

\* the relay holds no upstream socket that is connecting or open
UpstreamDown == geminiWs \notin {"CONNECTING", "OPEN"}

\* C29: after sessionTerminated is set the upstream connection is closed and
\* from then on none of the relay is connecting or open, whatever the
\* upstream side was doing at the termination.  What a finite run can
\* refute: once the session is terminated and the upstream side is down, it
\* stays down.
C29_UpstreamStaysDownAfterTermination ==
  [][(sessionTerminated /\ UpstreamDown /\ conn' = conn) => UpstreamDown']_vars

\* C30: when an end_session message was handled on a client connection, the
\* close of that connection writes status 'ended': it does not write
\* 'processing' and does not call generateDocument.
C30_CloseAfterEndSession ==
  /\ [][(ClientCloses /\ explicitSessionEndRequested) =>
          /\ BagIn(Write("set", [status |-> "ended", endedAt |-> <<now>>], "closeEnded", 0),
                   inflight')
          /\ CloseGenInflight' = 0
          /\ UNCHANGED <<genPending, genRunning, synthesisCalls>>]_vars
  /\ [](explicitSessionEndRequested =>
          /\ CloseGenInflight = 0
          /\ synthesisCalls = 0
          /\ genPending = 0
          /\ genRunning = 0
          /\ db.status # "processing")

\* the client ended the session and closed; the close handler has returned
C30_Witness ==
  /\ explicitSessionEndRequested
  /\ browserWs = "CLOSED"
  /\ inflight = EmptyBag
  /\ db.status = "ended"
  /\ db.endedAt # NoDate
  /\ synthesisCalls = 0

\* the stored status becomes 'cancelled'
BecomesCancelled == db'.status = "cancelled" /\ db.status # "cancelled"

\* C31: a session's status becomes 'cancelled' only when its stored
\* transcript is empty; the finalize request with action discard sets status
\* 'cancelled' and resumptionHandle null, keeps an endedAt that is already
\* set, and does not call generateDocument.
C31_CancelledOnlyWithoutTranscript ==
  [][BecomesCancelled =>
        /\ db.transcript = <<>>
        /\ db'.resumptionHandle = Null
        /\ (db.endedAt # NoDate => db'.endedAt = db.endedAt)
        /\ UNCHANGED <<genPending, genRunning>>]_vars

\* the relay handles an upstream message that carries a turn completion
TurnCompleteHandled == \E m \in TurnUpMsgs : m.turnComplete /\ GeminiMessage(m)

\* C32: when an upstream message with a turn completion has been handled,
\* the utterance buffer is empty: every fragment delivered up to that
\* message, its own included, has been flushed to the transcript or dropped
\* as whitespace.
C32_TurnCompleteEmptiesBuffer ==
  [][TurnCompleteHandled => transcriptBuffer' = NoBuffer]_vars

\* no synthesis is waiting to start or running, no write is on its way to
\* the store, and no relay is at work
NothingPending ==
  /\ genPending = 0
  /\ genRunning = 0
  /\ Quiescent

\* C33: a session that has entered status 'processing' reaches 'completed'
\* or 'failed' once the synthesis call and the store writes have returned:
\* with every call returned and nothing left to run, the stored status is
\* not 'processing'.
C33_ProcessingSettles == NothingPending => db.status # "processing"

\* a store update of the relay reaches the store
RelayWriteLands == \E w \in BagToSet(inflight) : DbApply(w)

\* C34: end_session, then finalize with 'generate_partial', then the close
\* of the client socket: however the close handler interleaves with the
\* synthesis, once the session has settled in 'completed' or 'failed' no
\* write of the relay changes that status.
C34_RelayKeepsSettledStatus ==
  [][(/\ explicitSessionEndRequested
      /\ db.status \in {"completed", "failed"}
      /\ RelayWriteLands) => db'.status = db.status]_vars

\* the step starts the upload of a frame
UploadStarts == Len(uploads') = Len(uploads) + 1

\* the relay has considered one payload twice in a row and nothing else, the
\* upload of the first has failed and nothing is still under way
SameTwiceAfterFailure ==
  /\ SameTwiceDone
  /\ uploadsFailed = 1

\* C35: the fingerprint is advanced by the step that starts the upload and a
\* failed upload does not take it back; when the same payload is considered
\* next, that consideration uploads and appends nothing, and the frame list
\* holds no reference for the image.
C35_FingerprintKeptOnFailure ==
  /\ [][UploadStarts =>
          lastFrameHash' = <<simpleHash(frameHist'[Len(frameHist')])>>]_vars
  /\ [][FrameSaveFails => lastFrameHash' = lastFrameHash]_vars
  /\ [][(uploadsFailed > 0 /\ RepeatedPayload) => NothingSaved]_vars
  /\ [](SameTwiceAfterFailure => db.frames = <<>>)

\* the upload of an image has failed, the same image has been considered
\* again with its fingerprint still in place, and no frame is stored
C35_Witness ==
  /\ SameTwiceAfterFailure
  /\ frameHist = <<(<<67>>), (<<67>>)>>
  /\ lastFrameHash = <<simpleHash(<<67>>)>>
  /\ db.frames = <<>>
  /\ inflight = EmptyBag
  /\ forwarded = <<1, 2>>

\* the session is over for its invite token
ClosedForInvite == db.present /\ db.status \in {"completed", "cancelled"}

\* C36: a session in status 'completed' or 'cancelled' is not re-entered
\* through its invite token: the public lookup answers 400, and a client
\* connection accepted with the token leaves the status as it is.
C36_ClosedSessionNotReentered ==
  /\ [](ClosedForInvite => getSessionByToken(db) = 400)
  /\ [][(ClosedForInvite /\ AcceptStep) => db'.status = db.status]_vars

=============================================================================
